---- MODULE Spec2Model ----
(***************************************************************************)
(* Model of src/src/App.jsx (socks-game): the SocksGame component's state, *)
(* its event handlers, its timers and the effects React runs after each    *)
(* commit.  One action is one callback run to completion: the handler's    *)
(* state updates, the commit, and every effect pass that follows until no  *)
(* state changes any more (Settle).                                        *)
(*                                                                         *)
(* Every setTimeout/setInterval is a countdown in milliseconds.  Spec,     *)
(* SpecItems and SpecChase do not track durations: an armed timer may fire *)
(* at any time.  SpecTimed lets time pass (Advance) up to the next expiry, *)
(* and a countdown at 0 has to fire before time passes again.              *)
(***************************************************************************)
EXTENDS Integers, Sequences, FiniteSets, TLC

\* ---------------------------------------------------------------- constants
MAZE_WIDTH == 21
MAZE_HEIGHT == 17
MAX_LEVEL == 3
COUCH_WIDTH == 5
COUCH_HEIGHT == 3
StartLives == 3
BonePoints == 10
TreatPoints == 500
SpecialPoints == 1000
EatPoints == 1000
MinSpawnDistance == 5
SpawnDelay == 10000
DespawnDelay == 20000
SpecialMovePeriod == 900
TreatMovePeriod == 630
FrozenDelay == 3000
RespawnDelay == 4000
BaseCatchers == 2
ExtraPassages == 30

\* ------------------------------------------------------------------- bounds
\* Math.floor(Math.random() * n) is explored for the first RandChoices indices.
RandChoices == 1
\* placeBones is explored for the non-empty subsets of the first MaxBones
\* cells of BoneSample.
MaxBones == 2
\* Events explored per roster (from a level start or a resume after a catch
\* to the next), by kind: arrow key presses and releases, pause toggles,
\* firings of the catcher interval, special spawns, random-walk steps of the
\* special item and of the dog treat; and all kinds together.
MaxKeys == 3
MaxPauses == 1
MaxTicks == 2
MaxSpawns == 2
MaxWalks == 1
MaxEvents == 3
\* Firings of the catcher interval explored per roster in SpecChase.
ChaseTicks == 9
\* Arrow key presses explored per roster in SpecChase.
ChaseKeys == 2
\* SpecTimed lets time pass while the special item is at most this many
\* milliseconds older than DespawnDelay.
MaxOverdue == 0
\* SpecEat explores this many catcher moves and key presses per roster.
EatTicks == 2
EatKeys == 1
\* SpecFreeze lets the first special item get this old (ms) before time stops.
HuntTime == 1000
\* The placement rules are tried on lists of at most this many valid positions.
MaxCandidates == 2
\* generateMaze is run on grids of 2 * GenCols + 1 columns and 2 * GenRows + 1
\* rows.
GenCols == 2
GenRows == 2

Min(a, b) == IF a < b THEN a ELSE b
Abs(a) == IF a < 0 THEN -a ELSE a
Off == -1

\* ------------------------------------------------------------ generateMaze
\* A grid generateMaze returns, as the set of open columns (maze[y][x] === 0)
\* of each row y = 0..16:
\*   #####################
\*   #.........#...#.....#
\*   #.#######.#.#.#.#.#.#
\*   #...#...#.#.#.#.#...#
\*   #.#.#.#...#.#.#.###.#
\*   #.#.#.#.#.#.#...#...#
\*   #.#...#.#.#.###.#.#.#
\*   #.#.......#.....#...#
\*   #.#.###.#.#.#.#.#.###
\*   #.#...#...#.#.#.#...#
\*   #.#.#.#####.#.#.###.#
\*   #...#.............#.#
\*   #.######.#######..#.#
\*   #.#.......#...#...#.#
\*   #.#.#.###.#.#.#.###.#
\*   #...#.......#.......#
\*   #####################
GeneratedMazes ==
  << << {},
       {1,2,3,4,5,6,7,8,9,11,12,13,15,16,17,18,19},
       {1,9,11,13,15,17,19},
       {1,2,3,5,6,7,9,11,13,15,17,18,19},
       {1,3,5,7,8,9,11,13,15,19},
       {1,3,5,7,9,11,13,14,15,17,18,19},
       {1,3,4,5,7,9,11,15,17,19},
       {1,3,4,5,6,7,8,9,11,12,13,14,15,17,18,19},
       {1,3,7,9,11,13,15,17},
       {1,3,4,5,7,8,9,11,13,15,17,18,19},
       {1,3,5,11,13,15,19},
       {1,2,3,5,6,7,8,9,10,11,12,13,14,15,16,17,19},
       {1,8,16,17,19},
       {1,3,4,5,6,7,8,9,11,12,13,15,16,17,19},
       {1,3,5,9,11,13,15,19},
       {1,2,3,5,6,7,8,9,10,11,13,14,15,16,17,18,19},
       {} >> >>

\* Another grid generateMaze returns, in which the walls (10,5), (9,6) and
\* (11,6) around the cell above the couch are closed:
\*   #####################
\*   #.....#.............#
\*   #.#.#.#..##.#.#####.#
\*   #...#.#...#.#.....#.#
\*   #.###.###.#.###.#.#.#
\*   #.#...#...#.....#.#.#
\*   #.#.###.#####.###.#.#
\*   #.#.........#...#...#
\*   #.#########.#...###.#
\*   #.........#.#.......#
\*   #.##..###.#.#######.#
\*   #.........#.........#
\*   #.###.#########.#.#.#
\*   #.....#.........#.#.#
\*   #...###.##..#.###.#.#
\*   #...................#
\*   #####################
WalledApproachMaze ==
  << {},
     {1,2,3,4,5,7,8,9,10,11,12,13,14,15,16,17,18,19},
     {1,3,5,7,8,11,13,19},
     {1,2,3,5,7,8,9,11,13,14,15,16,17,19},
     {1,5,9,11,15,17,19},
     {1,3,4,5,7,8,9,11,12,13,14,15,17,19},
     {1,3,7,13,17,19},
     {1,3,4,5,6,7,8,9,10,11,13,14,15,17,18,19},
     {1,11,13,14,15,19},
     {1,2,3,4,5,6,7,8,9,11,13,14,15,16,17,18,19},
     {1,4,5,9,11,19},
     {1,2,3,4,5,6,7,8,9,11,12,13,14,15,16,17,18,19},
     {1,5,15,17,19},
     {1,2,3,4,5,7,8,9,10,11,12,13,14,15,17,19},
     {1,2,3,7,10,11,13,17,19},
     {1,2,3,4,5,6,7,8,9,10,11,12,13,14,15,16,17,18,19},
     {} >>

NumMazes == Len(GeneratedMazes)

\* ------------------------------------------------------------- grid helpers
Pos(x, y) == [x |-> x, y |-> y]

\* startLevel: couchX, couchY
CouchX == (MAZE_WIDTH \div 2) - 2
CouchY == (MAZE_HEIGHT \div 2) - 1

\* startLevel: the 5x3 block and the four approach cells forced open
CarveCouch(g) ==
  [r \in 1..MAZE_HEIGHT |->
     LET y == r - 1
         block == IF y >= CouchY /\ y < CouchY + 3
                  THEN {x \in CouchX..(CouchX + 4) : x < MAZE_WIDTH} ELSE {}
         above == IF CouchY > 0 /\ y = CouchY - 1 THEN {CouchX + 2} ELSE {}
         below == IF CouchY + 3 < MAZE_HEIGHT /\ y = CouchY + 3 THEN {CouchX + 2} ELSE {}
         left  == IF CouchX > 0 /\ y = CouchY + 1 THEN {CouchX - 1} ELSE {}
         right == IF CouchX + 5 < MAZE_WIDTH /\ y = CouchY + 1 THEN {CouchX + 5} ELSE {}
     IN g[r] \cup block \cup above \cup below \cup left \cup right]

LevelGrids == [i \in 1..NumMazes |-> CarveCouch(GeneratedMazes[i])]

\* The cell array a maze value stands for: m.gen names the generated grid and
\* m.carved tells whether startLevel has carved the couch into it.
Grid(m) == IF m.carved THEN LevelGrids[m.gen] ELSE GeneratedMazes[m.gen]

\* maze[y]?.[x] === 0
IsOpen(m, x, y) ==
  /\ y >= 0 /\ y < MAZE_HEIGHT /\ x >= 0 /\ x < MAZE_WIDTH
  /\ x \in Grid(m)[y + 1]

\* onCouch / inSafeZone / inCouch
OnCouch(cp, p) ==
  /\ p.x >= cp.x /\ p.x < cp.x + COUCH_WIDTH
  /\ p.y >= cp.y /\ p.y < cp.y + COUCH_HEIGHT

InSeq(e, seq) == \E i \in 1..Len(seq) : seq[i] = e

Manhattan(a, b) == Abs(a.x - b.x) + Abs(a.y - b.y)

\* Cells in the order of "for y ... for x ..."
ScanCells(y0, y1, x0, x1) ==
  LET w == x1 - x0 + 1
  IN [i \in 1..((y1 - y0 + 1) * w) |-> Pos(x0 + ((i - 1) % w), y0 + ((i - 1) \div w))]

AllCells == ScanCells(0, MAZE_HEIGHT - 1, 0, MAZE_WIDTH - 1)
InteriorCells == ScanCells(1, MAZE_HEIGHT - 2, 1, MAZE_WIDTH - 2)

Draw(r, n) == r % n

\* getLevelSettings: Math.round(450 * Math.pow(0.85, lvl - 1)) for lvl = 1..4
CatcherSpeedTable == <<450, 383, 325, 276>>
catcherSpeed(lvl) == CatcherSpeedTable[lvl]
catcherCount(lvl) == BaseCatchers + lvl

\* createCatchers
catcherPositions ==
  << Pos(MAZE_WIDTH - 2, 1),
     Pos(1, MAZE_HEIGHT - 2),
     Pos(MAZE_WIDTH - 2, MAZE_HEIGHT - 2),
     Pos(MAZE_WIDTH \div 2, 1),
     Pos(MAZE_WIDTH \div 2, MAZE_HEIGHT - 2) >>

\* createCatchers with id: i in place of id: i + 1
createCatchers_ZeroBased(lvl) ==
  [i \in 1..Min(catcherCount(lvl), Len(catcherPositions)) |->
     [id |-> i - 1, x |-> catcherPositions[i].x, y |-> catcherPositions[i].y]]

createCatchers(lvl) ==
  [i \in 1..Min(catcherCount(lvl), Len(catcherPositions)) |->
     [id |-> i, x |-> catcherPositions[i].x, y |-> catcherPositions[i].y]]

\* The bone cells without the filter on the couch area
BoneCells_OnCouch(m, cp) ==
  SelectSeq(AllCells, LAMBDA c :
     /\ IsOpen(m, c.x, c.y)
     /\ ~(c.x = 1 /\ c.y = 1)
     /\ ~(c.x >= cp.x + 1 /\ c.x < cp.x + 4 /\ c.y = cp.y + 3))

\* placeBones + the filter of startLevel: the cells that may hold a bone
BoneCells(m, cp) ==
  SelectSeq(AllCells, LAMBDA c :
     /\ IsOpen(m, c.x, c.y)
     /\ ~(c.x = 1 /\ c.y = 1)
     /\ ~OnCouch(cp, c)
     /\ ~(c.x >= cp.x + 1 /\ c.x < cp.x + 4 /\ c.y = cp.y + 3))

\* The bone cells that are explored, and the layouts placeBones leaves on
\* them: per generated grid, for the useState initial value (the grid as
\* generated) and for startLevel (the carved grid, with its filter)
BoneSample == << Pos(2, 1), Pos(1, 15), Pos(3, 1), Pos(1, 13) >>
SampleCells == {BoneSample[i] : i \in 1..Min(MaxBones, Len(BoneSample))}
placeBones ==
  [g \in 1..NumMazes |->
     (SUBSET {c \in SampleCells :
                /\ IsOpen([gen |-> g, carved |-> FALSE], c.x, c.y)
                /\ ~(c.x = 1 /\ c.y = 1)}) \ {{}}]
BoneLayouts ==
  [g \in 1..NumMazes |->
     LET cells == BoneCells([gen |-> g, carved |-> TRUE], Pos(CouchX, CouchY))
     IN (SUBSET {c \in SampleCells : InSeq(c, cells)}) \ {{}}]

\* validPositions with a distance test that admits distance 5
ItemSpawnPositions_AtFive(m, cp, player) ==
  SelectSeq(InteriorCells, LAMBDA c :
     /\ IsOpen(m, c.x, c.y)
     /\ Manhattan(c, player) >= MinSpawnDistance
     /\ ~OnCouch(cp, c))

\* validPositions of the bone effect (treat) and of the special spawn timer
ItemSpawnPositions(m, cp, player) ==
  SelectSeq(InteriorCells, LAMBDA c :
     /\ IsOpen(m, c.x, c.y)
     /\ Manhattan(c, player) > MinSpawnDistance
     /\ ~OnCouch(cp, c))

\* The end of findValidCatcherSpawn: a random valid position, or the fallback
respawnCell(validPositions, r) ==
  IF Len(validPositions) > 0
  THEN validPositions[Draw(r, Len(validPositions)) + 1]
  ELSE Pos(MAZE_WIDTH - 2, MAZE_HEIGHT - 2)

\* The end of the two item spawns, "if (validPositions.length > 0) { ... }":
\* the cell the item is put on, if any
itemCell(validPositions, r) ==
  IF Len(validPositions) > 0
  THEN << validPositions[Draw(r, Len(validPositions)) + 1] >>
  ELSE << >>

\* findValidCatcherSpawn
findValidCatcherSpawn(m, cp, player, r) ==
  LET validPositions ==
        SelectSeq(AllCells, LAMBDA c :
           /\ IsOpen(m, c.x, c.y)
           /\ Manhattan(c, player) > MinSpawnDistance
           /\ ~OnCouch(cp, c)
           /\ ~(c.x = 1 /\ c.y = 1))
  IN respawnCell(validPositions, r)

\* The moves arrays: open neighbours in the order right, left, down, up
Neighbours(p) == << Pos(p.x + 1, p.y), Pos(p.x - 1, p.y), Pos(p.x, p.y + 1), Pos(p.x, p.y - 1) >>
Moves(m, p) == SelectSeq(Neighbours(p), LAMBDA c : IsOpen(m, c.x, c.y))

allTypes == <<"drumstick", "pizza", "cookie", "tennis", "cheese">>
\* availableTypes without the filter on the kinds already spawned
availableTypes_Unfiltered(spawned) == allTypes
availableTypes(spawned) == SelectSeq(allTypes, LAMBDA t : ~InSeq(t, spawned))

\* -------------------------------------------------------------------- state
VARIABLES
  maze, socks, bones, catchers, lives, score, gameState, heldDirection,
  level, dogTreat, hasDogTreat, showTreatMessage,
  specialItem, collectedSpecials, spawnedSpecials, catchersFrozen,
  couchPosition,
  catcherTimer,     \* the catcher movement setInterval: ms to the next firing, or Off
  spawnTimer,       \* the special spawn setTimeout
  despawnTimer,     \* the special despawn setTimeout
  specialMoveTimer, \* the special movement setInterval
  treatMoveTimer,   \* the dog treat movement setInterval
  respawnTimers,    \* the pending catcher respawn setTimeouts, with the maze and couch their closure holds
  frozenTimers,     \* the pending setCatchersFrozen(false) setTimeouts
  stamp,            \* how many Date.now() values were handed out as catcher ids since the roster was built
  stampHeld,        \* nothing has run since the last respawn took its Date.now(): the next respawn may read the same millisecond
  generator,        \* the call of generateMaze that is followed step by step (SpecMaze)
  specialAge,       \* milliseconds that have passed since the special item spawned
  events,           \* the events of each kind since the roster was built
  budget,           \* how many events of each kind, and of all kinds, are explored per roster
  timed             \* whether the countdowns run (SpecTimed) or an armed timer may fire at any time (Spec)

vars ==
  << maze, socks, bones, catchers, lives, score, gameState, heldDirection,
     level, dogTreat, hasDogTreat, showTreatMessage,
     specialItem, collectedSpecials, spawnedSpecials, catchersFrozen,
     couchPosition, catcherTimer, spawnTimer, despawnTimer, specialMoveTimer,
     treatMoveTimer, respawnTimers, frozenTimers, stamp, stampHeld, specialAge, events, budget, timed,
     generator >>

\* The component's state as one value: what a render closes over.
St ==
  [ maze |-> maze, socks |-> socks, bones |-> bones, catchers |-> catchers,
    lives |-> lives, score |-> score, gameState |-> gameState,
    heldDirection |-> heldDirection, level |-> level, dogTreat |-> dogTreat,
    hasDogTreat |-> hasDogTreat, showTreatMessage |-> showTreatMessage,
    specialItem |-> specialItem, collectedSpecials |-> collectedSpecials,
    spawnedSpecials |-> spawnedSpecials, catchersFrozen |-> catchersFrozen,
    couchPosition |-> couchPosition, catcherTimer |-> catcherTimer,
    spawnTimer |-> spawnTimer, despawnTimer |-> despawnTimer,
    specialMoveTimer |-> specialMoveTimer, treatMoveTimer |-> treatMoveTimer,
    respawnTimers |-> respawnTimers, frozenTimers |-> frozenTimers,
    stamp |-> stamp, stampHeld |-> stampHeld, specialAge |-> specialAge,
    events |-> events ]

Commit(n) ==
  /\ maze' = n.maze /\ socks' = n.socks /\ bones' = n.bones
  /\ catchers' = n.catchers /\ lives' = n.lives /\ score' = n.score
  /\ gameState' = n.gameState /\ heldDirection' = n.heldDirection
  /\ level' = n.level /\ dogTreat' = n.dogTreat /\ hasDogTreat' = n.hasDogTreat
  /\ showTreatMessage' = n.showTreatMessage /\ specialItem' = n.specialItem
  /\ collectedSpecials' = n.collectedSpecials /\ spawnedSpecials' = n.spawnedSpecials
  /\ catchersFrozen' = n.catchersFrozen /\ couchPosition' = n.couchPosition
  /\ catcherTimer' = n.catcherTimer /\ spawnTimer' = n.spawnTimer
  /\ despawnTimer' = n.despawnTimer /\ specialMoveTimer' = n.specialMoveTimer
  /\ treatMoveTimer' = n.treatMoveTimer /\ respawnTimers' = n.respawnTimers
  /\ frozenTimers' = n.frozenTimers /\ stamp' = n.stamp
  /\ stampHeld' = (n.stampHeld /\ (timed \/ n.stamp # stamp))
  /\ specialAge' = n.specialAge
  /\ events' = n.events
  /\ timed' = timed /\ budget' = budget /\ generator' = generator

Directions == {"right", "left", "down", "up"}
DX(d) == IF d = "right" THEN 1 ELSE IF d = "left" THEN -1 ELSE 0
DY(d) == IF d = "down" THEN 1 ELSE IF d = "up" THEN -1 ELSE 0

\* gameLoopMove without the test that the target cell is open
gameLoopMove_ThroughWalls(s) ==
  IF s.gameState = "playing" /\ s.heldDirection # "none"
  THEN LET newX == s.socks.x + DX(s.heldDirection)
           newY == s.socks.y + DY(s.heldDirection)
       IN IF newX >= 0 /\ newX < MAZE_WIDTH /\ newY >= 0 /\ newY < MAZE_HEIGHT
          THEN [s EXCEPT !.socks = Pos(newX, newY)]
          ELSE s
  ELSE s

\* gameLoop on a frame that is at least moveInterval after the last move
gameLoopMove(s) ==
  IF s.gameState = "playing" /\ s.heldDirection # "none"
  THEN LET newX == s.socks.x + DX(s.heldDirection)
           newY == s.socks.y + DY(s.heldDirection)
       IN IF newX >= 0 /\ newX < MAZE_WIDTH /\ newY >= 0 /\ newY < MAZE_HEIGHT
             /\ IsOpen(s.maze, newX, newY)
          THEN [s EXCEPT !.socks = Pos(newX, newY)]
          ELSE s
  ELSE s

AtRest == gameLoopMove(St) = St

NoEvents == [key |-> 0, pause |-> 0, tick |-> 0, spawn |-> 0, walk |-> 0]
Total(e) == e.key + e.pause + e.tick + e.spawn + e.walk
\* Where durations are not tracked, events are explored at the moments the
\* player stands still, as many as the budget allows; where they are, time
\* bounds them.
Allowed(k) ==
  timed \/ (events[k] < budget[k] /\ Total(events) < budget.total /\ AtRest)
Count(s, k) == IF timed THEN s ELSE [s EXCEPT !.events[k] = @ + 1]

\* ------------------------------------------------------------------ effects
\* Each effect reads the state of the render it belongs to (c) and queues its
\* updates on the state being built for the next commit (n).  An effect whose
\* dependencies did not change is not run again; an effect that only tests
\* its dependencies and updates state does nothing when it is run again on
\* unchanged dependencies, so only the timer effects look at what changed
\* (p is the state of the previous commit, fresh tells that startLevel has
\* just made new maze, couchPosition and spawnedSpecials objects).

\* The bone effect taking every bone at once
BoneEffect_TakesAll(c, n, r) ==
  IF c.gameState # "playing" \/ c.socks \notin c.bones THEN n
  ELSE
    LET newBones == {}
        n1 == [n EXCEPT !.bones = newBones, !.score = @ + BonePoints]
    IN IF newBones # {} THEN n1
       ELSE
         LET n2 == [n1 EXCEPT !.heldDirection = "none"]
             validPositions == ItemSpawnPositions(c.maze, c.couchPosition, c.socks)
         IN IF c.level < MAX_LEVEL
            THEN [n2 EXCEPT !.gameState = "levelComplete"]
            ELSE IF Len(validPositions) > 0
                 THEN [n2 EXCEPT
                         !.dogTreat = <<validPositions[Draw(r, Len(validPositions)) + 1]>>,
                         !.showTreatMessage = TRUE,
                         !.gameState = "paused"]
                 ELSE n2

\* The bone effect completing the last level like the others
BoneEffect_CompletesLast(c, n, r) ==
  IF c.gameState # "playing" \/ c.socks \notin c.bones THEN n
  ELSE
    LET newBones == c.bones \ {c.socks}
        n1 == [n EXCEPT !.bones = newBones, !.score = @ + BonePoints]
    IN IF newBones # {} THEN n1
       ELSE
         LET n2 == [n1 EXCEPT !.heldDirection = "none"]
             validPositions == ItemSpawnPositions(c.maze, c.couchPosition, c.socks)
         IN IF c.level <= MAX_LEVEL
            THEN [n2 EXCEPT !.gameState = "levelComplete"]
            ELSE IF Len(validPositions) > 0
                 THEN [n2 EXCEPT
                         !.dogTreat = <<validPositions[Draw(r, Len(validPositions)) + 1]>>,
                         !.showTreatMessage = TRUE,
                         !.gameState = "paused"]
                 ELSE n2

\* useEffect "Check for bone collection separately"
BoneEffect(c, n, r) ==
  IF c.gameState # "playing" \/ c.socks \notin c.bones THEN n
  ELSE
    LET newBones == c.bones \ {c.socks}
        n1 == [n EXCEPT !.bones = newBones, !.score = @ + BonePoints]
    IN IF newBones # {} THEN n1
       ELSE
         LET n2 == [n1 EXCEPT !.heldDirection = "none"]
             validPositions == ItemSpawnPositions(c.maze, c.couchPosition, c.socks)
         IN IF c.level < MAX_LEVEL
            THEN [n2 EXCEPT !.gameState = "levelComplete"]
            ELSE IF itemCell(validPositions, r) # << >>
                 THEN [n2 EXCEPT
                         !.dogTreat = itemCell(validPositions, r),
                         !.showTreatMessage = TRUE,
                         !.gameState = "paused"]
                 ELSE n2

\* The treat pickup effect without setDogTreat(null)
TreatPickupEffect_KeepsTreat(c, n) ==
  IF c.gameState # "playing" \/ c.dogTreat = <<>> \/ c.hasDogTreat THEN n
  ELSE IF c.socks = c.dogTreat[1]
       THEN [n EXCEPT !.hasDogTreat = TRUE, !.score = @ + TreatPoints]
       ELSE n

\* useEffect "Check for dog treat pickup"
TreatPickupEffect(c, n) ==
  IF c.gameState # "playing" \/ c.dogTreat = <<>> \/ c.hasDogTreat THEN n
  ELSE IF c.socks = c.dogTreat[1]
       THEN [n EXCEPT !.hasDogTreat = TRUE, !.dogTreat = <<>>, !.score = @ + TreatPoints]
       ELSE n

\* The treat delivery effect without the onCouch test
TreatDeliveryEffect_Anywhere(c, n) ==
  IF c.gameState # "playing" \/ ~c.hasDogTreat THEN n
  ELSE [n EXCEPT !.heldDirection = "none", !.gameState = "won", !.hasDogTreat = FALSE]

\* The treat delivery effect without its phase change
TreatDeliveryEffect_NoWin(c, n) ==
  IF c.gameState # "playing" \/ ~c.hasDogTreat THEN n
  ELSE IF OnCouch(c.couchPosition, c.socks)
       THEN [n EXCEPT !.heldDirection = "none"]
       ELSE n

\* useEffect "Check for treat delivery to couch"
TreatDeliveryEffect(c, n) ==
  IF c.gameState # "playing" \/ ~c.hasDogTreat THEN n
  ELSE IF OnCouch(c.couchPosition, c.socks)
       THEN [n EXCEPT !.heldDirection = "none", !.gameState = "won", !.hasDogTreat = FALSE]
       ELSE n

\* The movement interval kept running while the catchers are frozen
CatcherTimerEffect_IgnoresFrozen(p, c, n, fresh) ==
  IF p.gameState = c.gameState /\ ~fresh /\ p.level = c.level
     /\ p.catchersFrozen = c.catchersFrozen
  THEN n
  ELSE [n EXCEPT !.catcherTimer =
          IF c.gameState # "playing" THEN Off
          ELSE catcherSpeed(c.level)]

\* useEffect "Move catchers independently on their own timer": the interval is
\* cleared and set again when gameState, maze, level or catchersFrozen change
CatcherTimerEffect(p, c, n, fresh) ==
  IF p.gameState = c.gameState /\ ~fresh /\ p.level = c.level
     /\ p.catchersFrozen = c.catchersFrozen
  THEN n
  ELSE [n EXCEPT !.catcherTimer =
          IF c.gameState # "playing" \/ c.catchersFrozen THEN Off
          ELSE catcherSpeed(c.level)]

\* The first catcher on the player's cell: catchers.find(...)
CaughtIndex(c) ==
  LET hits == {i \in 1..Len(c.catchers) :
                 c.catchers[i].x = c.socks.x /\ c.catchers[i].y = c.socks.y}
  IN IF hits = {} THEN 0 ELSE CHOOSE i \in hits : \A j \in hits : i <= j

\* NormalCatch with the loss test off by one (newLives < 0)
NormalCatch_LostBelowZero(c, n) ==
  LET newLives == c.lives - 1
  IN [n EXCEPT !.heldDirection = "none",
               !.lives = newLives,
               !.gameState = IF newLives < 0 THEN "lost" ELSE "caught"]

\* The normal catch of the collision effect
NormalCatch(c, n) ==
  LET newLives == c.lives - 1
  IN [n EXCEPT !.heldDirection = "none",
               !.lives = newLives,
               !.gameState = IF newLives <= 0 THEN "lost" ELSE "caught"]

\* EatCatcher without its setScore call
EatCatcher_NoPoints(c, n, i) ==
  LET catcherId == c.catchers[i].id
  IN [n EXCEPT !.catchers = SelectSeq(@, LAMBDA k : k.id # catcherId),
               !.respawnTimers = Append(@, [rem |-> RespawnDelay, maze |-> c.maze,
                                            couch |-> c.couchPosition])]

\* The frozen catcher eaten in the collision effect
EatCatcher(c, n, i) ==
  LET catcherId == c.catchers[i].id
  IN [n EXCEPT !.score = @ + EatPoints,
               !.catchers = SelectSeq(@, LAMBDA k : k.id # catcherId),
               !.respawnTimers = Append(@, [rem |-> RespawnDelay, maze |-> c.maze,
                                            couch |-> c.couchPosition])]

\* CollisionEffect without the early return of the safe zone
CollisionEffect_NoSafeZone(c, n) ==
  IF c.gameState # "playing" THEN n
  ELSE IF CaughtIndex(c) = 0 THEN n
  ELSE IF c.catchersFrozen THEN EatCatcher(c, n, CaughtIndex(c))
  ELSE NormalCatch(c, n)

\* useEffect "Check collision with catchers (but not in safe zone)"
CollisionEffect(c, n) ==
  IF c.gameState # "playing" THEN n
  ELSE IF OnCouch(c.couchPosition, c.socks) THEN n
  ELSE IF CaughtIndex(c) = 0 THEN n
  ELSE IF c.catchersFrozen THEN EatCatcher(c, n, CaughtIndex(c))
  ELSE NormalCatch(c, n)

\* useEffect "Special item spawn timer"
SpawnTimerEffect(p, c, n, fresh) ==
  IF p.gameState = c.gameState /\ ~fresh /\ p.specialItem = c.specialItem
     /\ p.spawnedSpecials = c.spawnedSpecials
  THEN n
  ELSE [n EXCEPT !.spawnTimer =
          IF c.gameState # "playing" \/ c.specialItem # <<>> THEN Off
          ELSE IF Len(availableTypes(c.spawnedSpecials)) = 0 THEN Off
          ELSE SpawnDelay]

\* useEffect "Special item despawn timer"
DespawnTimerEffect(p, c, n) ==
  IF p.specialItem = c.specialItem /\ p.gameState = c.gameState THEN n
  ELSE [n EXCEPT !.despawnTimer =
          IF c.specialItem = <<>> \/ c.gameState # "playing" THEN Off ELSE DespawnDelay]

\* useEffect "Special item movement"
SpecialMoveTimerEffect(p, c, n, fresh) ==
  IF p.specialItem = c.specialItem /\ p.gameState = c.gameState /\ ~fresh THEN n
  ELSE [n EXCEPT !.specialMoveTimer =
          IF c.specialItem = <<>> \/ c.gameState # "playing" THEN Off
          ELSE SpecialMovePeriod]

\* The special pickup without the timeout that clears the frozen flag
SpecialPickupEffect_NoTimeout(c, n) ==
  IF c.gameState # "playing" \/ c.specialItem = <<>> THEN n
  ELSE IF c.socks.x = c.specialItem[1].x /\ c.socks.y = c.specialItem[1].y
       THEN [n EXCEPT !.score = @ + SpecialPoints,
                      !.collectedSpecials = Append(@, c.specialItem[1].type),
                      !.specialItem = <<>>,
                      !.catchersFrozen = TRUE]
       ELSE n

\* useEffect "Check collision with special item"
SpecialPickupEffect(c, n) ==
  IF c.gameState # "playing" \/ c.specialItem = <<>> THEN n
  ELSE IF c.socks.x = c.specialItem[1].x /\ c.socks.y = c.specialItem[1].y
       THEN [n EXCEPT !.score = @ + SpecialPoints,
                      !.collectedSpecials = Append(@, c.specialItem[1].type),
                      !.specialItem = <<>>,
                      !.catchersFrozen = TRUE,
                      !.frozenTimers = Append(@, FrozenDelay)]
       ELSE n

\* useEffect "Dog treat movement"
TreatMoveTimerEffect(p, c, n, fresh) ==
  IF p.dogTreat = c.dogTreat /\ p.gameState = c.gameState /\ ~fresh THEN n
  ELSE [n EXCEPT !.treatMoveTimer =
          IF c.dogTreat = <<>> \/ c.gameState # "playing" THEN Off
          ELSE TreatMovePeriod]

\* One commit's effects, in the order the component declares them
Pass(p, c, fresh, r) ==
  LET n1 == BoneEffect(c, c, r)
      n2 == TreatPickupEffect(c, n1)
      n3 == TreatDeliveryEffect(c, n2)
      n4 == CatcherTimerEffect(p, c, n3, fresh)
      n5 == CollisionEffect(c, n4)
      n6 == SpawnTimerEffect(p, c, n5, fresh)
      n7 == DespawnTimerEffect(p, c, n6)
      n8 == SpecialMoveTimerEffect(p, c, n7, fresh)
      n9 == SpecialPickupEffect(c, n8)
  IN TreatMoveTimerEffect(p, c, n9, fresh)

RECURSIVE Settle(_, _, _, _)
\* Commits and effect passes until a pass changes nothing
Settle(p, c, fresh, r) ==
  LET n == Pass(p, c, fresh, r)
  IN IF n = c THEN c ELSE Settle(c, n, FALSE, r)

\* ------------------------------------------------------------ generateMaze
\* generateMaze, run step by step on a grid of GenWidth x GenHeight cells (the
\* component's grid is MAZE_WIDTH x MAZE_HEIGHT).  generator.open is the set
\* of cells with maze[y][x] === 0.
GenWidth == 2 * GenCols + 1
GenHeight == 2 * GenRows + 1
GenCells == {Pos(x, y) : x \in 0..(GenWidth - 1), y \in 0..(GenHeight - 1)}
GenInterior(c) ==
  c.x > 0 /\ c.x < GenWidth - 1 /\ c.y > 0 /\ c.y < GenHeight - 1
\* [dx, dy] of [0, -1], [0, 1], [-1, 0], [1, 0]
Steps == {Pos(0, -1), Pos(0, 1), Pos(-1, 0), Pos(1, 0)}
Shift(c, d, k) == Pos(c.x + k * d.x, c.y + k * d.y)

\* filter(([dx, dy]) => maze[y + dy]?.[x + dx] === 0)
GenOpenNeighbours(open, c) == {d \in Steps : Shift(c, d, 1) \in open}

\* GenWallNeighbours without the test that keeps the border closed
GenWallNeighbours_AnyWall(open, c) ==
  {d \in Steps : LET n == Shift(c, d, 1) IN n \in GenCells /\ n \notin open}

\* GenWallNeighbours with maze[ny][nx] === 0 in place of === 1
GenWallNeighbours_OpenCells(open, c) ==
  {d \in Steps : LET n == Shift(c, d, 1) IN GenInterior(n) /\ n \in open}

\* The interior wall cells next to c
GenWallNeighbours(open, c) ==
  {d \in Steps : LET n == Shift(c, d, 1)
                 IN GenInterior(n) /\ n \in GenCells /\ n \notin open}

\* The test of the extra-passage loop: a wall with at least two open neighbours
CanOpenExtra(open, c) ==
  c \notin open /\ Cardinality(GenOpenNeighbours(open, c)) >= 2

\* IsDeadEnd with openNeighbors.length === 2 in place of === 1
IsDeadEnd_TwoExits(open, c) ==
  c \in open /\ Cardinality(GenOpenNeighbours(open, c)) = 2

\* IsDeadEnd with openNeighbors.length === 0 in place of === 1
IsDeadEnd_NoExit(open, c) ==
  c \in open /\ Cardinality(GenOpenNeighbours(open, c)) = 0

\* The test of the dead-end loop: an open cell with exactly one exit
IsDeadEnd(open, c) ==
  c \in open /\ Cardinality(GenOpenNeighbours(open, c)) = 1

\* carve without the passage between the two cells
CarvedCells_NoPassage(at, d) == {Shift(at, d, 2)}

\* The cells one recursion of carve opens: the passage and the next cell
CarvedCells(at, d) == {Shift(at, d, 1), Shift(at, d, 2)}

\* No call of generateMaze is running
GenIdle ==
  [pc |-> "idle", open |-> {}, stack |-> <<>>, i |-> 0, x |-> 1, y |-> 1,
   hasDeadEnds |-> TRUE]

\* generateMaze was called and has entered carve(1, 1)
GenCalled ==
  [pc |-> "carve", open |-> {Pos(1, 1)},
   stack |-> << [at |-> Pos(1, 1), dirs |-> Steps] >>, i |-> 0, x |-> 1, y |-> 1,
   hasDeadEnds |-> TRUE]

GameIdle ==
  UNCHANGED << maze, socks, bones, catchers, lives, score, gameState,
               heldDirection, level, dogTreat, hasDogTreat, showTreatMessage,
               specialItem, collectedSpecials, spawnedSpecials, catchersFrozen,
               couchPosition, catcherTimer, spawnTimer, despawnTimer,
               specialMoveTimer, treatMoveTimer, respawnTimers, frozenTimers,
               stamp, stampHeld, specialAge, events, budget, timed >>

\* carve: one iteration of the for loop of the innermost call (the shuffled
\* directions are taken in any order), or its return
carve ==
  /\ generator.pc = "carve"
  /\ GameIdle
  /\ LET n == Len(generator.stack)
         f == generator.stack[n]
     IN IF f.dirs = {}
        THEN generator' =
               [generator EXCEPT !.stack = SubSeq(@, 1, n - 1),
                                 !.pc = IF n = 1 THEN "extra" ELSE "carve"]
        ELSE \E d \in f.dirs :
               LET t == Shift(f.at, d, 2)
                   rest == [generator EXCEPT !.stack[n].dirs = @ \ {d}]
               IN IF GenInterior(t) /\ t \notin generator.open
                  THEN generator' =
                         [rest EXCEPT !.open = @ \cup CarvedCells(f.at, d),
                                      !.stack = Append(@, [at |-> t, dirs |-> Steps])]
                  ELSE generator' = rest

\* One iteration of the extra-passage loop, or the end of the loop and the
\* start of the first dead-end scan
addExtraPassage ==
  /\ generator.pc = "extra"
  /\ GameIdle
  /\ IF generator.i >= ExtraPassages
     THEN generator' = [generator EXCEPT !.pc = "scan", !.hasDeadEnds = FALSE,
                                         !.x = 1, !.y = 1]
     ELSE \E x \in 1..(GenWidth - 2), y \in 1..(GenHeight - 2) :
            generator' =
              [generator EXCEPT
                 !.i = @ + 1,
                 !.open = IF CanOpenExtra(generator.open, Pos(x, y))
                          THEN @ \cup {Pos(x, y)} ELSE @]

\* The dead-end scan at one cell, then the step to the next cell, to the next
\* scan (hasDeadEnds) or to the return
removeDeadEnds ==
  /\ generator.pc = "scan"
  /\ GameIdle
  /\ LET c == Pos(generator.x, generator.y)
         dead == IsDeadEnd(generator.open, c)
         walls == GenWallNeighbours(generator.open, c)
         found == generator.hasDeadEnds \/ dead
         lastX == generator.x = GenWidth - 2
         lastY == generator.y = GenHeight - 2
     IN \E d \in (IF dead /\ walls # {} THEN walls ELSE {Pos(0, 0)}) :
          generator' =
            [generator EXCEPT
               !.open = IF dead /\ walls # {} THEN @ \cup {Shift(c, d, 1)} ELSE @,
               !.x = IF lastX THEN 1 ELSE @ + 1,
               !.y = IF ~lastX THEN @ ELSE IF lastY THEN 1 ELSE @ + 1,
               !.hasDeadEnds = IF lastX /\ lastY THEN FALSE ELSE found,
               !.pc = IF lastX /\ lastY /\ ~found THEN "done" ELSE "scan"]


\* ----------------------------------------------------------------- handlers
Phases == {"start", "playing", "paused", "caught", "levelComplete", "won", "lost"}
\* startLevel(lvl), with the grid generateMaze returned (g) and the bones
\* placeBones and the filter left (bs)
startLevel(s, lvl, g, bs) ==
  [s EXCEPT
     !.couchPosition = Pos(CouchX, CouchY),
     !.maze = [gen |-> g, carved |-> TRUE],
     !.socks = Pos(1, 1),
     !.bones = bs,
     !.catchers = createCatchers(lvl),
     !.gameState = "playing",
     !.heldDirection = "none",
     !.specialItem = <<>>,
     !.spawnedSpecials = <<>>,
     !.dogTreat = <<>>,
     !.hasDogTreat = FALSE,
     !.showTreatMessage = FALSE,
     !.catchersFrozen = FALSE,
     !.stamp = 0, !.stampHeld = FALSE, !.events = NoEvents]

\* initGame: the buttons of the start, won and lost screens
initGame ==
  /\ gameState \in {"start", "won", "lost"}
  /\ \E g \in 1..NumMazes :
       \E bs \in BoneLayouts[g] :
         LET h == [St EXCEPT !.level = 1, !.lives = StartLives, !.score = 0,
                             !.collectedSpecials = <<>>]
         IN Commit(Settle(St, startLevel(h, 1, g, bs), TRUE, 0))

\* nextLevel: the button of the level-complete screen
nextLevel ==
  /\ gameState = "levelComplete"
  /\ \E g \in 1..NumMazes :
       \E bs \in BoneLayouts[g] :
         LET newLevel == level + 1
             h == [St EXCEPT !.level = newLevel]
         IN Commit(Settle(St, startLevel(h, newLevel, g, bs), TRUE, 0))

\* startAtLevel(lvl): the level buttons of the title menu, shown in every
\* phase but start
startAtLevel ==
  /\ gameState # "start"
  /\ \E lvl \in 1..MAX_LEVEL :
     \E g \in 1..NumMazes :
       \E bs \in BoneLayouts[g] :
         LET h == [St EXCEPT !.level = lvl, !.lives = StartLives, !.score = 0,
                             !.collectedSpecials = <<>>]
         IN Commit(Settle(St, startLevel(h, lvl, g, bs), TRUE, 0))

\* togglePause: the pause keys and buttons, offered while playing or paused
togglePause ==
  /\ gameState \in {"playing", "paused"}
  /\ Allowed("pause")
  /\ LET h == IF gameState = "playing"
              THEN [St EXCEPT !.gameState = "paused", !.heldDirection = "none"]
              ELSE [St EXCEPT !.gameState = "playing"]
     IN Commit(Settle(St, Count(h, "pause"), FALSE, 0))

\* resetGame: the reset buttons, offered while playing or paused
resetGame ==
  /\ gameState \in {"playing", "paused"}
  /\ LET h == [St EXCEPT
                 !.gameState = "start", !.level = 1, !.lives = StartLives,
                 !.score = 0, !.collectedSpecials = <<>>, !.heldDirection = "none",
                 !.specialItem = <<>>, !.spawnedSpecials = <<>>, !.dogTreat = <<>>,
                 !.hasDogTreat = FALSE, !.showTreatMessage = FALSE,
                 !.catchersFrozen = FALSE]
     IN Commit(Settle(St, h, TRUE, 0))

\* dismissTreatMessage: the button of the treat message, shown while
\* showTreatMessage is set
dismissTreatMessage ==
  /\ showTreatMessage
  /\ LET h == [St EXCEPT !.showTreatMessage = FALSE, !.gameState = "playing"]
     IN Commit(Settle(St, h, FALSE, 0))

\* resumeAfterCatch leaving the catchers where they caught the player
resumeAfterCatch_KeepsCatchers ==
  /\ gameState = "caught"
  /\ LET h == [St EXCEPT !.socks = Pos(1, 1),
                         !.gameState = "playing",
                         !.stamp = 0, !.stampHeld = FALSE, !.events = NoEvents]
     IN Commit(Settle(St, h, FALSE, 0))

\* resumeAfterCatch: the button of the caught screen
resumeAfterCatch ==
  /\ gameState = "caught"
  /\ LET h == [St EXCEPT !.socks = Pos(1, 1), !.catchers = createCatchers(level),
                         !.gameState = "playing",
                         !.stamp = 0, !.stampHeld = FALSE, !.events = NoEvents]
     IN Commit(Settle(St, h, FALSE, 0))

\* handleKeyDown with an arrow key
handleKeyDown ==
  /\ Allowed("key")
  /\ \E d \in Directions :
       Commit(Settle(St, Count([St EXCEPT !.heldDirection = d], "key"), FALSE, 0))

\* The release of any arrow key clearing the held direction
releasedKey_AnyKey(held, d) == "none"

\* The held direction after the release of arrow key d: cleared when the
\* released key's dx and dy are those of the held direction
releasedKey(held, d) ==
  IF held # "none" /\ DX(d) = DX(held) /\ DY(d) = DY(held)
  THEN "none"
  ELSE held

\* handleKeyUp with an arrow key
handleKeyUp ==
  /\ Allowed("key")
  /\ \E d \in Directions :
       LET h == [St EXCEPT !.heldDirection = releasedKey(heldDirection, d)]
       IN Commit(Settle(St, Count(h, "key"), FALSE, 0))

\* gameLoop: the animation frame callback, which runs in every phase
gameLoop ==
  /\ gameState \in Phases
  /\ \E r \in 0..(RandChoices - 1) :
       Commit(Settle(St, gameLoopMove(St), FALSE, r))

CatcherDraws ==
  {[greedy |-> TRUE, idx |-> 0]}
    \cup {[greedy |-> FALSE, idx |-> i] : i \in 0..(RandChoices - 1)}

\* moves.sort((a, b) => distA - distB): Array.prototype.sort is stable, the
\* moves at the same distance keep the order they were pushed in.  Each move
\* is put behind the moves sorted so far that are not farther than it.
RECURSIVE InsertMove(_, _, _)
InsertMove(sorted, mv, target) ==
  IF sorted = << >> THEN << mv >>
  ELSE IF Manhattan(mv, target) < Manhattan(Head(sorted), target)
       THEN << mv >> \o sorted
       ELSE << Head(sorted) >> \o InsertMove(Tail(sorted), mv, target)
RECURSIVE sortMoves(_, _)
sortMoves(moves, target) ==
  IF moves = << >> THEN << >>
  ELSE InsertMove(sortMoves(SubSeq(moves, 1, Len(moves) - 1), target),
                  moves[Len(moves)], target)

\* The greedy move taking the last of the moves at the least distance
GreedyMove_LastTie(moves, target) ==
  LET best == CHOOSE i \in 1..Len(moves) :
                /\ \A j \in 1..Len(moves) :
                     Manhattan(moves[i], target) <= Manhattan(moves[j], target)
                /\ \A j \in (i + 1)..Len(moves) :
                     Manhattan(moves[j], target) > Manhattan(moves[i], target)
  IN moves[best]

\* The greedy move: moves.sort(...)[0]
GreedyMove(moves, target) == sortMoves(moves, target)[1]

\* The callback of prevCatchers.map
MoveCatcher(m, catcher, target, d) ==
  LET moves == Moves(m, catcher)
  IN IF Len(moves) = 0 THEN catcher
     ELSE LET to == IF d.greedy THEN GreedyMove(moves, target)
                    ELSE moves[Draw(d.idx, Len(moves)) + 1]
          IN [catcher EXCEPT !.x = to.x, !.y = to.y]

\* A timer fires when its countdown has run out.  Where durations are not
\* tracked, an armed timer may fire at any time: every order the durations
\* allow is among the orders explored.
Due(t) == IF timed THEN t = 0 ELSE t # Off

\* The catcher movement interval fires
CatcherTick ==
  /\ Due(catcherTimer)
  /\ \E d \in CatcherDraws :
       /\ Allowed("tick")
       /\ LET h == [St EXCEPT
                      !.catchers = [i \in 1..Len(catchers) |->
                                      MoveCatcher(maze, catchers[i], socks, d)],
                      !.catcherTimer = catcherSpeed(level)]
          IN Commit(Settle(St, Count(h, "tick"), FALSE, 0))

\* A catcher respawn timeout fires.  Date.now() gives the id: a value never
\* given before, or the value of the last respawn when the two callbacks run
\* within one millisecond of the clock (two timeouts armed together, or run
\* back to back by a timer batch that was late).
RespawnFire ==
  \E i \in 1..Len(respawnTimers) :
    /\ Due(respawnTimers[i].rem)
    /\ timed \/ AtRest
    /\ \E r \in 0..(RandChoices - 1), sameMs \in BOOLEAN :
         /\ sameMs => stampHeld
         /\ LET t == respawnTimers[i]
                newPos == findValidCatcherSpawn(t.maze, t.couch, socks, r)
                newStamp == IF sameMs THEN stamp ELSE stamp + 1
                h == [St EXCEPT
                        !.catchers = Append(@, [id |-> 1000 + newStamp,
                                                x |-> newPos.x, y |-> newPos.y]),
                        !.respawnTimers = SubSeq(@, 1, i - 1) \o SubSeq(@, i + 1, Len(@)),
                        !.stamp = newStamp, !.stampHeld = TRUE]
            IN Commit(Settle(St, h, FALSE, 0))

\* The special spawn timeout fires
SpawnFire ==
  /\ Due(spawnTimer)
  /\ Allowed("spawn")
  /\ timed \/ (frozenTimers = <<>> /\ respawnTimers = <<>>)
  /\ \E r \in 0..(RandChoices - 1), k \in 0..(RandChoices - 1) :
       LET validPositions == ItemSpawnPositions(maze, couchPosition, socks)
           types == availableTypes(spawnedSpecials)
           h0 == Count([St EXCEPT !.spawnTimer = Off], "spawn")
           h == IF itemCell(validPositions, r) # << >> /\ Len(types) > 0
                THEN LET pos == itemCell(validPositions, r)[1]
                         type == types[Draw(k, Len(types)) + 1]
                     IN [h0 EXCEPT
                           !.specialItem = <<[type |-> type, x |-> pos.x, y |-> pos.y]>>,
                           !.specialAge = 0,
                           !.spawnedSpecials = Append(@, type)]
                ELSE h0
       IN Commit(Settle(St, h, FALSE, 0))

\* The special despawn timeout fires
DespawnFire ==
  /\ Due(despawnTimer)
  /\ Commit(Settle(St, [St EXCEPT !.specialItem = <<>>, !.despawnTimer = Off], FALSE, 0))

\* The random walk step taking any neighbour, open or not
RandomStep_ThroughWalls(m, p, r) ==
  LET moves == Neighbours(p)
  IN IF Len(moves) = 0 THEN Pos(p.x, p.y) ELSE moves[Draw(r, Len(moves)) + 1]

\* The random walk step of the special item and of the dog treat
RandomStep(m, p, r) ==
  LET moves == Moves(m, p)
  IN IF Len(moves) = 0 THEN Pos(p.x, p.y) ELSE moves[Draw(r, Len(moves)) + 1]

\* The special movement interval fires
SpecialMoveFire ==
  /\ Due(specialMoveTimer)
  /\ Allowed("walk")
  /\ \E r \in 0..(RandChoices - 1) :
       LET h0 == Count([St EXCEPT !.specialMoveTimer = SpecialMovePeriod], "walk")
           h == IF specialItem = <<>> THEN h0
                ELSE LET newPos == RandomStep(maze, specialItem[1], r)
                     IN [h0 EXCEPT !.specialItem =
                           <<[specialItem[1] EXCEPT !.x = newPos.x, !.y = newPos.y]>>]
       IN Commit(Settle(St, h, FALSE, 0))

\* The dog treat movement interval fires
TreatMoveFire ==
  /\ Due(treatMoveTimer)
  /\ Allowed("walk")
  /\ \E r \in 0..(RandChoices - 1) :
       LET h0 == Count([St EXCEPT !.treatMoveTimer = TreatMovePeriod], "walk")
           h == IF dogTreat = <<>> THEN h0
                ELSE [h0 EXCEPT !.dogTreat = <<RandomStep(maze, dogTreat[1], r)>>]
       IN Commit(Settle(St, h, FALSE, 0))

\* A setCatchersFrozen(false) timeout fires
FrozenFire ==
  \E i \in 1..Len(frozenTimers) :
    /\ Due(frozenTimers[i])
    /\ timed \/ AtRest
    /\ LET h == [St EXCEPT
                   !.catchersFrozen = FALSE,
                   !.frozenTimers = SubSeq(@, 1, i - 1) \o SubSeq(@, i + 1, Len(@))]
       IN Commit(Settle(St, h, FALSE, 0))

\* The armed countdowns
Countdowns ==
  {t \in {catcherTimer, spawnTimer, despawnTimer, specialMoveTimer, treatMoveTimer} : t # Off}
    \cup {respawnTimers[i].rem : i \in 1..Len(respawnTimers)}
    \cup {frozenTimers[i] : i \in 1..Len(frozenTimers)}

Elapse(t, d) == IF t = Off THEN Off ELSE t - d

\* Time passes up to the next expiry
Advance ==
  /\ timed
  /\ Countdowns # {}
  /\ specialItem # <<>> => specialAge <= DespawnDelay + MaxOverdue
  /\ LET d == CHOOSE t \in Countdowns : \A u \in Countdowns : t <= u
     IN /\ d > 0
        /\ catcherTimer' = Elapse(catcherTimer, d)
        /\ spawnTimer' = Elapse(spawnTimer, d)
        /\ despawnTimer' = Elapse(despawnTimer, d)
        /\ specialMoveTimer' = Elapse(specialMoveTimer, d)
        /\ treatMoveTimer' = Elapse(treatMoveTimer, d)
        /\ respawnTimers' = [i \in 1..Len(respawnTimers) |->
                               [respawnTimers[i] EXCEPT !.rem = @ - d]]
        /\ frozenTimers' = [i \in 1..Len(frozenTimers) |-> frozenTimers[i] - d]
        /\ stampHeld' = FALSE
        /\ specialAge' = IF specialItem # <<>> THEN specialAge + d ELSE specialAge
        /\ UNCHANGED << maze, socks, bones, catchers, lives, score, gameState,
                        heldDirection, level, dogTreat, hasDogTreat, showTreatMessage,
                        specialItem, collectedSpecials, spawnedSpecials,
                        catchersFrozen, couchPosition, stamp, events, budget, timed,
                        generator >>

\* ------------------------------------------------------------ specification
\* The component as mounted: the useState initial values, no timer armed.
Mounted ==
  /\ \E g \in 1..NumMazes : maze = [gen |-> g, carved |-> FALSE]
  /\ socks = Pos(1, 1)
  /\ \E g \in 1..NumMazes : bones \in placeBones[g]
  /\ catchers = <<>>
  /\ lives = StartLives
  /\ score = 0
  /\ gameState = "start"
  /\ heldDirection = "none"
  /\ level = 1
  /\ dogTreat = <<>> /\ hasDogTreat = FALSE /\ showTreatMessage = FALSE
  /\ specialItem = <<>> /\ collectedSpecials = <<>> /\ spawnedSpecials = <<>>
  /\ catchersFrozen = FALSE
  /\ couchPosition = Pos(10, 7)
  /\ catcherTimer = Off /\ spawnTimer = Off /\ despawnTimer = Off
  /\ specialMoveTimer = Off /\ treatMoveTimer = Off
  /\ respawnTimers = <<>> /\ frozenTimers = <<>>
  /\ stamp = 0 /\ stampHeld = FALSE /\ specialAge = 0 /\ events = NoEvents

PlayBudget ==
  [key |-> MaxKeys, pause |-> MaxPauses, tick |-> MaxTicks, spawn |-> 0,
   walk |-> MaxWalks, total |-> MaxEvents]
ItemBudget ==
  [key |-> MaxKeys, pause |-> 0, tick |-> MaxTicks, spawn |-> MaxSpawns,
   walk |-> MaxWalks, total |-> MaxEvents]
ChaseBudget ==
  [key |-> ChaseKeys, pause |-> 0, tick |-> ChaseTicks, spawn |-> 0,
   walk |-> 0, total |-> ChaseKeys + ChaseTicks]

Init == Mounted /\ timed = FALSE /\ budget = PlayBudget
  /\ generator = GenIdle

Next ==
  \/ initGame
  \/ nextLevel
  \/ startAtLevel
  \/ togglePause
  \/ resetGame
  \/ dismissTreatMessage
  \/ resumeAfterCatch
  \/ handleKeyDown
  \/ handleKeyUp
  \/ gameLoop
  \/ CatcherTick
  \/ TreatMoveFire

Spec == Init /\ [][Next]_vars

InitItems == Mounted /\ timed = FALSE /\ budget = ItemBudget
  /\ generator = GenIdle

NextItems ==
  \/ initGame
  \/ resetGame
  \/ resumeAfterCatch
  \/ handleKeyDown
  \/ gameLoop
  \/ CatcherTick
  \/ SpawnFire
  \/ DespawnFire
  \/ SpecialMoveFire
  \/ FrozenFire
  \/ RespawnFire

SpecItems == InitItems /\ [][NextItems]_vars

InitChase == Mounted /\ timed = FALSE /\ budget = ChaseBudget
  /\ generator = GenIdle

NextChase ==
  \/ initGame
  \/ startAtLevel
  \/ handleKeyDown
  \/ gameLoop
  \/ CatcherTick

SpecChase == InitChase /\ [][NextChase]_vars

\* The timeouts of the special item: the spawn timeout or the despawn timeout
\* fires
SpecialTimeoutFire ==
  \E t \in {"spawn", "despawn"} : IF t = "spawn" THEN SpawnFire ELSE DespawnFire

TimedBudget == [key |-> 0, pause |-> 0, tick |-> 0, spawn |-> 0, walk |-> 0, total |-> 0]

InitTimed == Mounted /\ timed = TRUE /\ budget = TimedBudget
  /\ generator = GenIdle

NextTimed ==
  \/ initGame
  \/ Advance
  \/ CatcherTick
  \/ SpecialTimeoutFire
  \/ SpecialMoveFire

SpecTimed == InitTimed /\ [][NextTimed]_vars

\* generateMaze on its own
InitMaze == Mounted /\ generator = GenCalled /\ timed = FALSE /\ budget = TimedBudget

NextMaze == carve \/ addExtraPassage \/ removeDeadEnds

SpecMaze == InitMaze /\ [][NextMaze]_vars

SpecMazeFair == SpecMaze /\ WF_vars(NextMaze)

\* The final level with its treat and the special items, the catchers held
FinalBudget ==
  [key |-> MaxKeys, pause |-> 0, tick |-> 0, spawn |-> MaxSpawns,
   walk |-> 0, total |-> MaxEvents]

InitFinal == Mounted /\ timed = FALSE /\ budget = FinalBudget
  /\ generator = GenIdle

NextFinal ==
  \/ initGame
  \/ startAtLevel
  \/ handleKeyDown
  \/ gameLoop
  \/ dismissTreatMessage
  \/ SpawnFire

SpecFinal == InitFinal /\ [][NextFinal]_vars

\* Levels 1 to 3 with the special items and the frozen catchers that are eaten
\* and respawn
EatBudget ==
  [key |-> EatKeys, pause |-> 0, tick |-> EatTicks, spawn |-> 1,
   walk |-> 0, total |-> EatKeys + EatTicks + 1]

InitEat == Mounted /\ timed = FALSE /\ budget = EatBudget
  /\ generator = GenIdle

\* A level button pressed while at most one eaten catcher waits to respawn
RestartLevel == Len(respawnTimers) <= 1 /\ startAtLevel

NextEat ==
  \/ initGame
  \/ RestartLevel
  \/ handleKeyDown
  \/ gameLoop
  \/ CatcherTick
  \/ SpawnFire
  \/ FrozenFire
  \/ RespawnFire

SpecEat == InitEat /\ [][NextEat]_vars

\* Eating and pausing: the timeouts of an eaten catcher and of the frozen
\* flag run on while the game is paused
PauseBudget ==
  [key |-> EatKeys, pause |-> MaxPauses, tick |-> EatTicks, spawn |-> 1,
   walk |-> 0, total |-> EatKeys + EatTicks + MaxPauses + 1]
InitPause == Mounted /\ timed = FALSE /\ budget = PauseBudget
  /\ generator = GenIdle
\* A level button pressed while no eaten catcher waits to respawn
FreshLevel == respawnTimers = << >> /\ startAtLevel
NextPause ==
  \/ initGame
  \/ FreshLevel
  \/ togglePause
  \/ handleKeyDown
  \/ gameLoop
  \/ CatcherTick
  \/ SpawnFire
  \/ FrozenFire
  \/ RespawnFire
SpecPause == InitPause /\ [][NextPause]_vars

\* Durations tracked, with a player who goes for the special item: the catcher
\* movement interval across a freeze
InitFreeze == Mounted /\ timed = TRUE /\ budget = TimedBudget
  /\ generator = GenIdle
\* The right arrow key pressed while the special item is out
HuntKey ==
  /\ specialItem # << >> /\ heldDirection = "none"
  /\ handleKeyDown /\ heldDirection' = "right"
\* A player move while the special item is out
HuntMove == specialItem # << >> /\ gameLoop
\* Time passes until the first special item is HuntTime old, and on from its
\* pickup until the catchers move again
HuntAdvance ==
  /\ IF collectedSpecials = << >>
     THEN specialItem # << >> => specialAge < HuntTime
     ELSE catchersFrozen \/ frozenTimers # << >>
  /\ Advance
NextFreeze ==
  \/ initGame
  \/ HuntAdvance
  \/ CatcherTick
  \/ SpawnFire
  \/ SpecialMoveFire
  \/ HuntKey
  \/ HuntMove
  \/ FrozenFire
SpecFreeze == InitFreeze /\ [][NextFreeze]_vars

\* The special item and the treat on their random walks, the catchers held
WalkBudget ==
  [key |-> MaxKeys, pause |-> 0, tick |-> 0, spawn |-> MaxSpawns,
   walk |-> MaxWalks + 1, total |-> MaxEvents + MaxWalks + 1]
InitWalk == Mounted /\ timed = FALSE /\ budget = WalkBudget
  /\ generator = GenIdle
NextWalk ==
  \/ initGame
  \/ startAtLevel
  \/ handleKeyDown
  \/ gameLoop
  \/ dismissTreatMessage
  \/ SpawnFire
  \/ SpecialMoveFire
  \/ TreatMoveFire
SpecWalk == InitWalk /\ [][NextWalk]_vars

\* ------------------------------------------------------------------ claims
OnCatcher == \E i \in 1..Len(catchers) : catchers[i].x = socks.x /\ catchers[i].y = socks.y
InSafeZone == OnCouch(couchPosition, socks)
Over == {"caught", "lost"}
NoDuplicates(seq) == \A i, j \in 1..Len(seq) : seq[i] = seq[j] => i = j

\* C1: a player sharing a cell with a catcher outside the safe zone while the
\* catchers are not frozen has been caught (the phase is caught or lost), and
\* every step that catches the player takes exactly one life and ends in
\* caught when a life is left, in lost otherwise.
C1_CatchRule ==
  /\ [](OnCatcher /\ ~InSafeZone /\ ~catchersFrozen => gameState \in Over)
  /\ [][(gameState' \in Over /\ (gameState \notin Over \/ lives' # lives))
          => /\ lives' = lives - 1
             /\ gameState' = IF lives' > 0 THEN "caught" ELSE "lost"]_vars

C1_Caught ==
  gameState = "caught" /\ lives = StartLives - 1 /\ OnCatcher /\ ~InSafeZone

\* C2: a step that leaves the player inside the safe zone neither takes a life
\* nor ends in caught or lost, whichever catchers stand on the player's cell.
C2_SafeZone ==
  [][InSafeZone' => lives' = lives /\ gameState' \notin Over]_vars

C2_CatcherInZone ==
  gameState = "playing" /\ InSafeZone /\ OnCatcher /\ lives = StartLives

\* C3: below the last level, play does not go on with no bone left.
C3_LevelCompletes ==
  gameState = "playing" /\ level < MAX_LEVEL => bones # {}

\* C4: in lost and in won a step leaves phase, position, lives and score as
\* they are, unless it starts a new session: level 1, full lives, no score,
\* no special collected.
C4_Terminal ==
  [][(gameState = "lost" \/ gameState = "won")
       => \/ UNCHANGED << gameState, socks, lives, score >>
          \/ (level' = 1 /\ lives' = StartLives /\ score' = 0
              /\ collectedSpecials' = << >>)]_vars

\* C5: lives stay between 0 and the starting three.
C5_LivesRange == lives \in 0..StartLives

\* C6: once the player is caught, no further life is taken before the catch
\* is acknowledged or a new session is started.
C6_OncePerCatch ==
  [][gameState = "caught" => lives' >= lives]_vars

C8_SpawnOnce ==
  /\ [](/\ NoDuplicates(spawnedSpecials)
        /\ Len(spawnedSpecials) <= Len(allTypes)
        /\ specialItem # <<>> => InSeq(specialItem[1].type, spawnedSpecials)
        /\ Len(spawnedSpecials) = Len(allTypes) => spawnTimer = Off)
  /\ [][spawnedSpecials' # spawnedSpecials
          => \/ spawnedSpecials' = <<>>
             \/ /\ specialItem' # <<>>
                /\ ~InSeq(specialItem'[1].type, spawnedSpecials)
                /\ spawnedSpecials' = Append(spawnedSpecials, specialItem'[1].type)]_vars

C8_AllSpawned ==
  /\ gameState = "playing" /\ Len(spawnedSpecials) = Len(allTypes)
  /\ specialItem = <<>>

\* C9: while the game is playing, no special item is on the board more than
\* 20 s after it spawned.
C9_Despawns ==
  gameState = "playing" /\ specialItem # <<>> => specialAge <= DespawnDelay

\* C10: a player tick moves the player one cell in the held direction when
\* the game is playing, a direction is held and the target cell is inside the
\* grid and open; otherwise it leaves the position and the held direction.
C10_PlayerTick ==
  [][gameLoop =>
       LET tx == socks.x + DX(heldDirection)
           ty == socks.y + DY(heldDirection)
       IN IF /\ gameState = "playing" /\ heldDirection # "none"
             /\ tx \in 0..(MAZE_WIDTH - 1) /\ ty \in 0..(MAZE_HEIGHT - 1)
             /\ tx \in Grid(maze)[ty + 1]
          THEN socks' = Pos(tx, ty)
          ELSE socks' = socks /\ heldDirection' = heldDirection]_vars

C10_Blocked ==
  /\ gameState = "playing" /\ heldDirection # "none"
  /\ socks # Pos(1, 1)
  /\ ~IsOpen(maze, socks.x + DX(heldDirection), socks.y + DY(heldDirection))

\* The open cells of a grid of the component
OpenCells(m) == UNION {{Pos(x, r - 1) : x \in Grid(m)[r]} : r \in 1..MAZE_HEIGHT}
OpenAround(cells, c) == {d \in Steps : Shift(c, d, 1) \in cells}
RECURSIVE Flood(_, _)
\* The cells of open that are orthogonally connected to the cells of seen
Flood(open, seen) ==
  LET more == seen \cup {c \in open : \E d \in Steps : Shift(c, d, 1) \in seen}
  IN IF more = seen THEN seen ELSE Flood(open, more)
Connected(open) == Flood(open, {Pos(1, 1)} \cap open) = open
GeneratedGrids == {[gen |-> g, carved |-> FALSE] : g \in 1..NumMazes}
CarvedGrids == {[gen |-> g, carved |-> TRUE] : g \in 1..NumMazes}

SampleNoDeadEnds ==
  \A m \in GeneratedGrids :
    \A c \in OpenCells(m) : Cardinality(OpenAround(OpenCells(m), c)) >= 2
C12_NoDeadEnds ==
  /\ generator.pc = "done"
       => \A c \in generator.open :
            Cardinality(GenOpenNeighbours(generator.open, c)) >= 2
  /\ SampleNoDeadEnds

C12_Returned ==
  generator.pc = "done" /\ Pos(2, 2) \notin generator.open

\* C13: at every step of generateMaze, and in the grid it returns, the open
\* cells are one orthogonally connected component that contains (1,1).
SampleConnected == \A m \in GeneratedGrids : Connected(OpenCells(m))
C13_Connected ==
  /\ Pos(1, 1) \in generator.open /\ Connected(generator.open)
  /\ SampleConnected

C13_WallOpened ==
  generator.pc = "scan" /\ generator.hasDeadEnds

\* C14: the border ring stays wall: at every step of generateMaze, in the
\* generated grids and in the level grids after the couch is carved.
SampleBorderClosed ==
  \A m \in GeneratedGrids \cup CarvedGrids :
    \A c \in OpenCells(m) :
      c.x > 0 /\ c.x < MAZE_WIDTH - 1 /\ c.y > 0 /\ c.y < MAZE_HEIGHT - 1
C14_BorderClosed ==
  /\ \A c \in generator.open : GenInterior(c)
  /\ SampleBorderClosed

C14_AlongBorder ==
  /\ generator.pc = "done"
  /\ \A x \in 1..(GenWidth - 2) : Pos(x, 1) \in generator.open

\* C15: every run of generateMaze reaches a dead-end scan that finds no dead
\* end and returns.
C15_Terminates == <>(generator.pc = "done")

C15_SecondScan ==
  generator.pc = "done" /\ Pos(2, 2) \in generator.open

\* C16: nextLevel raises the level by one, carves a new grid, puts the player
\* on (1,1), creates the 2 + level catchers of the new level on the first
\* layout positions with ids 1, 2, ..., sets the phase to playing and leaves
\* score, lives and collected specials as they are.
C16_NextLevel ==
  [][nextLevel =>
       /\ level' = level + 1
       /\ maze'.carved /\ maze'.gen \in 1..NumMazes
       /\ socks' = Pos(1, 1)
       /\ Len(catchers') = BaseCatchers + level'
       /\ \A i \in 1..Len(catchers') :
            catchers'[i] = [id |-> i, x |-> catcherPositions[i].x,
                            y |-> catcherPositions[i].y]
       /\ gameState' = "playing"
       /\ score' = score /\ lives' = lives
       /\ collectedSpecials' = collectedSpecials]_vars

C16_Advanced ==
  /\ gameState = "playing" /\ level = 2 /\ lives < StartLives
  /\ score = BonePoints /\ Cardinality(bones) = 2
  /\ socks = Pos(1, 1) /\ Len(catchers) = BaseCatchers + 2

\* A cell on which an item may be placed: open, off the couch and more than
\* five steps from the player
SpawnCell(c) ==
  /\ IsOpen(maze, c.x, c.y)
  /\ ~OnCouch(couchPosition, c)
  /\ Manhattan(c, socks) > 5

\* C17: whenever a special item or the dog treat is spawned, its cell is an
\* open cell off the couch whose Manhattan distance from the player is more
\* than 5 at that moment.
C17_SpawnPlacement ==
  [][(specialItem = << >> /\ specialItem' # << >> => SpawnCell(specialItem[1])')
     /\ (dogTreat = << >> /\ dogTreat' # << >> => SpawnCell(dogTreat[1])')]_vars

C17_BothSpawned ==
  /\ level = MAX_LEVEL /\ specialItem # << >> /\ dogTreat # << >>
  /\ gameState = "playing"

\* The carved grids whose open cells are one component
CarvedConnected ==
  [g \in 1..NumMazes |-> Connected(OpenCells([gen |-> g, carved |-> TRUE]))]
\* The way to the couch exists: the player, the dog treat not yet picked up
\* and the couch are on open cells of a connected grid
DeliveryPath ==
  /\ CarvedConnected[maze.gen]
  /\ IsOpen(maze, socks.x, socks.y)
  /\ dogTreat # << >> => IsOpen(maze, dogTreat[1].x, dogTreat[1].y)
  /\ \A x \in couchPosition.x..(couchPosition.x + COUCH_WIDTH - 1),
        y \in couchPosition.y..(couchPosition.y + COUCH_HEIGHT - 1) :
       IsOpen(maze, x, y)

\* C18: a player who enters the couch while carrying the dog treat in phase
\* playing has won (no playing state has the carrying player on the couch),
\* the phase won is entered in no other way, and on level 3, while the treat
\* is out or carried and the phase is playing, the way to the treat and to
\* the couch is open.
C18_Delivery ==
  /\ [](gameState = "playing" /\ hasDogTreat => ~InSafeZone)
  /\ [][(gameState = "playing" /\ hasDogTreat /\ ~InSafeZone /\ InSafeZone'
           => gameState' = "won" /\ ~hasDogTreat')
        /\ (gameState # "won" /\ gameState' = "won"
           => InSafeZone' /\ ~hasDogTreat' /\ dogTreat' = << >>
              /\ (hasDogTreat \/ dogTreat # << >>))]_vars
  /\ [](level = MAX_LEVEL /\ gameState = "playing" /\ bones = {}
          /\ (dogTreat # << >> \/ hasDogTreat) => DeliveryPath)

C18_Delivered ==
  /\ gameState = "won" /\ InSafeZone /\ level = MAX_LEVEL /\ bones = {}
  /\ score >= TreatPoints + BonePoints

\* A step in which something other than a bone is picked up or eaten
OtherPickup ==
  \/ hasDogTreat' # hasDogTreat
  \/ collectedSpecials' # collectedSpecials
  \/ Len(catchers') # Len(catchers)

\* C19: a move of the player in phase playing onto a cell that holds a bone
\* removes exactly that bone and adds exactly 10 to the score; a move onto a
\* cell without a bone leaves the bones and the score as they are (the score
\* apart from what another pickup of the same move awards).
C19_BonePickup ==
  [][(gameState = "playing" /\ socks' # socks /\ gameLoop)
       => IF socks' \in bones
          THEN bones' = bones \ {socks'} /\ (~OtherPickup => score' = score + 10)
          ELSE bones' = bones /\ (~OtherPickup => score' = score)]_vars

C19_OneOfTwo ==
  /\ Cardinality(bones) = 1 /\ score = BonePoints /\ gameState = "playing"
  /\ level = 1 /\ socks = Pos(2, 1) /\ lives = StartLives

\* C20: the level is always one of 1..MAX_LEVEL, and the phase levelComplete,
\* in which nextLevel is enabled, never occurs on level MAX_LEVEL.
C20_LevelRange ==
  /\ MAX_LEVEL = 3
  /\ level \in 1..MAX_LEVEL
  /\ gameState = "levelComplete" => level < MAX_LEVEL

C20_LastAdvance ==
  /\ level = MAX_LEVEL /\ gameState = "playing" /\ score = BonePoints
  /\ Cardinality(bones) = 2 /\ socks = Pos(1, 1)

\* C21: the ids of the catchers in the roster are pairwise distinct, also
\* when two respawn callbacks read the clock in the same millisecond.
C21_DistinctIds == NoDuplicates([i \in 1..Len(catchers) |-> catchers[i].id])

\* The phase changes of the phase diagram
PhaseEdges ==
  { <<"start", "playing">>, <<"playing", "paused">>, <<"paused", "playing">>,
    <<"playing", "caught">>, <<"caught", "playing">>,
    <<"playing", "levelComplete">>, <<"levelComplete", "playing">>,
    <<"playing", "won">>, <<"playing", "lost">>,
    <<"won", "playing">>, <<"lost", "playing">>,
    <<"won", "start">>, <<"lost", "start">> }

\* C22: every change of the phase is an edge of the phase diagram: start to
\* playing, playing to and from paused, playing to caught and back, playing to
\* levelComplete and on to playing, playing to won or lost, and the new
\* session out of won or lost.
C22_PhaseEdges ==
  [][(gameState' # gameState) => (<<gameState, gameState'>> \in PhaseEdges)]_vars

\* The catchers on a cell
CatchersOn(p) == {i \in 1..Len(catchers) : catchers[i].x = p.x /\ catchers[i].y = p.y}
\* The player moves, with the catchers frozen, onto a cell outside the couch
\* on which a catcher stands
EatStep ==
  /\ gameState = "playing" /\ catchersFrozen
  /\ socks' # socks /\ CatchersOn(socks') # {}
  /\ ~OnCouch(couchPosition, socks')
  /\ gameLoop
\* A respawn timeout fires
RespawnStep == Len(respawnTimers') = Len(respawnTimers) - 1
\* Where a respawned catcher may appear
RespawnCell(m, cp, player, c) ==
  \/ /\ IsOpen(m, c.x, c.y)
     /\ ~OnCouch(cp, c)
     /\ ~(c.x = 1 /\ c.y = 1)
     /\ Manhattan(c, player) > 5
  \/ c.x = MAZE_WIDTH - 2 /\ c.y = MAZE_HEIGHT - 2

\* C23: a frozen catcher the player steps onto outside the couch is removed
\* from the roster, the score grows by 1000, the lives stay, the phase stays
\* playing and a respawn is scheduled; the respawn adds one catcher with an id
\* no catcher of the roster has, on an open cell off the couch, not (1,1),
\* more than 5 steps from the player, or on the fallback cell.
C23_EatAndRespawn ==
  [][/\ EatStep =>
          /\ catchers' = SelectSeq(catchers, LAMBDA k : ~(k.x = socks'.x /\ k.y = socks'.y))
          /\ lives' = lives
          /\ Len(respawnTimers') = Len(respawnTimers) + Cardinality(CatchersOn(socks'))
          /\ (socks' \notin bones /\ hasDogTreat' = hasDogTreat /\ collectedSpecials' = collectedSpecials =>
                /\ gameState' = "playing"
                /\ score' = score + 1000 * Cardinality(CatchersOn(socks')))
     /\ RespawnStep =>
          /\ Len(catchers') = Len(catchers) + 1
          /\ SubSeq(catchers', 1, Len(catchers)) = catchers
          /\ \A i \in 1..Len(catchers) : catchers[i].id # catchers'[Len(catchers')].id
          /\ RespawnCell(maze', couchPosition', socks', catchers'[Len(catchers')])]_vars

\* The special item lies on cell p
SpecialOn(p) == specialItem # << >> /\ specialItem[1].x = p.x /\ specialItem[1].y = p.y
\* The treat lies on cell p
TreatOn(p) == dogTreat # << >> /\ dogTreat[1].x = p.x /\ dogTreat[1].y = p.y

\* C24 as stated: resumeAfterCatch puts the player on (1,1), the catchers on
\* the start layout of the current level and the phase to playing, and leaves
\* bones, score, lives, level, maze, special item, treat and carried flag as
\* they are.
C24_ResumeFrameStated ==
  [][resumeAfterCatch =>
       /\ socks' = Pos(1, 1)
       /\ catchers' = createCatchers(level)
       /\ Len(catchers') = BaseCatchers + level
       /\ gameState' = "playing"
       /\ UNCHANGED <<bones, score, lives, level, maze, specialItem, dogTreat, hasDogTreat>>]_vars

\* C24 amended: resumeAfterCatch puts the player on (1,1), the catchers on the
\* start layout of the current level and the phase to playing, and leaves
\* bones, lives, level and maze as they are; special item, treat, carried flag
\* and score stay too unless an item lies on (1,1), which the player then
\* picks up on arrival.
C24_ResumeFrame ==
  [][resumeAfterCatch =>
       /\ socks' = Pos(1, 1)
       /\ catchers' = createCatchers(level)
       /\ Len(catchers') = BaseCatchers + level
       /\ gameState' = "playing"
       /\ UNCHANGED <<bones, lives, level, maze>>
       /\ specialItem' = IF SpecialOn(Pos(1, 1)) THEN << >> ELSE specialItem
       /\ dogTreat' = IF TreatOn(Pos(1, 1)) THEN << >> ELSE dogTreat
       /\ hasDogTreat' = (hasDogTreat \/ TreatOn(Pos(1, 1)))
       /\ score' = score + (IF SpecialOn(Pos(1, 1)) THEN SpecialPoints ELSE 0)
                         + (IF TreatOn(Pos(1, 1)) THEN TreatPoints ELSE 0)]_vars
\* The player is back on (1,1) after a catch, with the bone taken before it
\* still gone
C24_Resumed ==
  /\ gameState = "playing" /\ socks = Pos(1, 1) /\ lives = StartLives - 1
  /\ score = BonePoints /\ Cardinality(bones) = 1
  /\ catchers = createCatchers(level) /\ events = NoEvents

\* C25: entering paused clears the held direction, and between two paused
\* states player, catchers, special item, treat, bones, score and lives stay
\* as they are, whatever timeout fires.
C25_PausedFrame ==
  [][/\ (gameState # "paused" /\ gameState' = "paused") => heldDirection' = "none"
     /\ (gameState = "paused" /\ gameState' = "paused") =>
          UNCHANGED <<socks, catchers, specialItem, dogTreat, bones, score, lives>>]_vars

\* A timeout that clears the frozen flag fires
FrozenStep == Len(frozenTimers') = Len(frozenTimers) - 1

\* C26: a respawn or frozen timeout that fires when the phase is no longer
\* playing changes neither the roster nor the frozen flag, and no catcher
\* eaten in an earlier level or session joins the roster of the current one:
\* the roster never has more than the 2 + level catchers of the level.
C26_StaleTimers ==
  /\ [][/\ (RespawnStep /\ gameState # "playing") => catchers' = catchers
        /\ (FrozenStep /\ gameState # "playing") => catchersFrozen' = catchersFrozen]_vars
  /\ [](gameState = "playing" => Len(catchers) <= BaseCatchers + level)

\* The handlers that put the catchers on the start layout of a level
LevelStart == initGame \/ nextLevel \/ startAtLevel \/ resumeAfterCatch

\* C27: in a step taken with the frozen flag set or in a phase other than
\* playing, which is not the start of a level, no catcher moves: the roster
\* stays, or loses the catchers eaten on the player's cell, or gets one
\* respawned catcher appended.
C27_NoMoveWhileFrozen ==
  [][((catchersFrozen \/ gameState # "playing") /\ ~LevelStart) =>
       \/ catchers' = catchers
       \/ /\ Len(catchers') < Len(catchers)
          /\ catchers' = SelectSeq(catchers, LAMBDA k : ~(k.x = socks'.x /\ k.y = socks'.y))
       \/ /\ RespawnStep
          /\ Len(catchers') = Len(catchers) + 1
          /\ SubSeq(catchers', 1, Len(catchers)) = catchers]_vars
\* The catchers are frozen after they have moved, and one of them was eaten
C27_FrozenAfterMoves ==
  /\ gameState = "playing" /\ catchersFrozen /\ catcherTimer = Off
  /\ events.tick > 0 /\ Len(respawnTimers) = 1
  /\ Len(catchers) = BaseCatchers + level - 1

\* C28: a change of the frozen flag leaves the countdown of the catcher
\* movement interval as it is, so that the next move after the flag clears
\* comes on the schedule the interval had before.
C28_TimerPhaseKept ==
  [][(catchersFrozen' # catchersFrozen /\ gameState = "playing" /\ gameState' = "playing")
       => catcherTimer' = catcherTimer]_vars

\* C29: every catcher of the roster stands on an open cell of the maze, from
\* the start layout of a level on, after every move and every respawn.
C29_CatchersOnOpenCells ==
  \A i \in 1..Len(catchers) : IsOpen(maze, catchers[i].x, catchers[i].y)

\* One step of a random walk: to an orthogonal neighbour that is open, or none
WalkStep(m, from, to) ==
  \/ to.x = from.x /\ to.y = from.y
  \/ Manhattan(from, to) = 1 /\ IsOpen(m, to.x, to.y)

\* C30: the special item and the treat lie on open cells of the maze, a step
\* that keeps an item moves it to an open orthogonal neighbour or not at all,
\* and the start of a level leaves no item of the level before.
C30_ItemsOnOpenCells ==
  /\ [](specialItem # << >> => IsOpen(maze, specialItem[1].x, specialItem[1].y))
  /\ [](dogTreat # << >> => IsOpen(maze, dogTreat[1].x, dogTreat[1].y))
  /\ [][/\ (specialItem # << >> /\ specialItem' # << >>) =>
             /\ maze' = maze
             /\ WalkStep(maze, specialItem[1], specialItem'[1])
        /\ (dogTreat # << >> /\ dogTreat' # << >>) =>
             /\ maze' = maze
             /\ WalkStep(maze, dogTreat[1], dogTreat'[1])
        /\ (initGame \/ nextLevel \/ startAtLevel) =>
             specialItem' = << >> /\ dogTreat' = << >>]_vars
\* Both items are out and neither lies on the cell it would spawn on
C30_BothWalked ==
  /\ gameState = "playing" /\ level = MAX_LEVEL
  /\ specialItem # << >> /\ dogTreat # << >>
  /\ events.walk >= 2
  /\ LET first == ItemSpawnPositions(maze, couchPosition, socks)[1]
     IN /\ Pos(specialItem[1].x, specialItem[1].y) # first
        /\ dogTreat[1] # first

\* The cells placeBones and the filter of startLevel may leave a bone on, in
\* scan order, per generated grid
LevelBoneCells ==
  [g \in 1..NumMazes |-> BoneCells([gen |-> g, carved |-> TRUE], Pos(CouchX, CouchY))]
\* A cell a bone may lie on at the start of a level
BoneCellOk(m, cp, c) ==
  /\ IsOpen(m, c.x, c.y)
  /\ ~(c.x = 1 /\ c.y = 1)
  /\ ~OnCouch(cp, c)

\* C31: the cells a level start may put a bone on are pairwise distinct open
\* cells of the level's maze, not (1,1) and not on the couch; the bones of a
\* level start are such cells, and every other step takes bones away or
\* leaves them.
C31_BonesAtLevelStart ==
  /\ \A g \in 1..NumMazes :
       /\ NoDuplicates(LevelBoneCells[g])
       /\ \A i \in 1..Len(LevelBoneCells[g]) :
            BoneCellOk([gen |-> g, carved |-> TRUE], Pos(CouchX, CouchY),
                       LevelBoneCells[g][i])
  /\ [][IF /\ socks' = Pos(1, 1) /\ events' = NoEvents
           /\ (initGame \/ nextLevel \/ startAtLevel)
        THEN \A b \in bones' : BoneCellOk(maze', couchPosition', b)
        ELSE bones' \subseteq bones]_vars
\* Level 2 right after nextLevel, with its bones and the score of level 1
C31_SecondLevelBones ==
  /\ gameState = "playing" /\ level = 2 /\ events = NoEvents
  /\ socks = Pos(1, 1) /\ lives = StartLives
  /\ score = BonePoints /\ Cardinality(bones) = 1

\* C32: the player never shares a cell with the special item in phase playing
\* without picking it up; a pickup adds 1000 to the score, appends the kind of
\* the item to the collected list, clears the item and sets the frozen flag;
\* while the flag is set, the timeout of the latest pickup is pending with at
\* most 3 s to go, and its firing clears the flag.
C32_SpecialPickup ==
  /\ [](gameState = "playing" => ~SpecialOn(socks))
  /\ [](catchersFrozen =>
          /\ frozenTimers # << >>
          /\ frozenTimers[Len(frozenTimers)] \in 0..FrozenDelay)
  /\ [][/\ Len(collectedSpecials') > Len(collectedSpecials) =>
             /\ score' = score + SpecialPoints + (IF socks' \in bones THEN BonePoints ELSE 0)
             /\ collectedSpecials' = Append(collectedSpecials, specialItem[1].type)
             /\ specialItem' = << >>
             /\ catchersFrozen'
             /\ frozenTimers' = Append(frozenTimers, FrozenDelay)
        /\ FrozenStep => ~catchersFrozen']_vars
\* The catchers are frozen and part of the 3 s has passed
C32_FrozenForAWhile ==
  /\ gameState = "playing" /\ catchersFrozen
  /\ Len(collectedSpecials) = 1 /\ score >= SpecialPoints
  /\ frozenTimers # << >> /\ frozenTimers[1] < FrozenDelay

\* C33: the held direction is none after a catch, after the phase becomes
\* paused, after the start of a level and after resetGame; the release of the
\* key of the held direction clears it, the release of another key leaves it.
C33_HeldDirectionCleared ==
  /\ \A held \in Directions \cup {"none"}, d \in Directions :
       releasedKey(held, d) = IF d = held THEN "none" ELSE held
  /\ [][/\ lives' < lives => heldDirection' = "none"
        /\ (gameState # "paused" /\ gameState' = "paused") => heldDirection' = "none"
        /\ (socks' = Pos(1, 1) /\ events' = NoEvents
              /\ (initGame \/ nextLevel \/ startAtLevel)) => heldDirection' = "none"
        /\ (gameState' = "start" /\ resetGame) => heldDirection' = "none"
        /\ handleKeyUp =>
             \E d \in Directions : heldDirection' = releasedKey(heldDirection, d)]_vars
\* The player has run into a wall and the key was released: no catch, pause,
\* level start or reset has cleared the held direction
C33_Released ==
  /\ gameState = "playing" /\ level = 1 /\ heldDirection = "none"
  /\ lives = StartLives /\ events.pause = 0 /\ events.key >= 2
  /\ socks # Pos(1, 1) /\ bones # {}

\* The greedy draw of a catcher move
GreedyDraw == [greedy |-> TRUE, idx |-> 0]
\* Where catcher k goes on a greedy move with the player on cell target
GreedyTarget(m, k, target) == MoveCatcher(m, k, target, GreedyDraw)
\* The cell is the first open neighbour of k, in the order right, left, down,
\* up, among those at the least Manhattan distance from target
FirstNearest(m, k, target, cell) ==
  LET nb == Neighbours(k)
  IN \E i \in 1..4 :
       /\ nb[i] = cell /\ IsOpen(m, cell.x, cell.y)
       /\ \A j \in 1..4 : IsOpen(m, nb[j].x, nb[j].y) =>
            /\ Manhattan(nb[i], target) <= Manhattan(nb[j], target)
            /\ j < i => Manhattan(nb[j], target) > Manhattan(nb[i], target)

\* C34: a catcher at a place without open neighbours stays on a greedy move;
\* from every place a catcher gets to, with the player where it is, the greedy
\* move goes to the first open neighbour in the order right, left, down, up
\* among those at the least Manhattan distance from the player.
C34_GreedyMove ==
  /\ \A g \in 1..NumMazes : \A i \in 1..Len(AllCells) :
       LET m == [gen |-> g, carved |-> TRUE]
           k == [id |-> 1, x |-> AllCells[i].x, y |-> AllCells[i].y]
       IN Len(Moves(m, k)) = 0 => GreedyTarget(m, k, Pos(1, 1)) = k
  /\ [](\A i \in 1..Len(catchers) :
          LET to == GreedyTarget(maze, catchers[i], socks)
          IN IF Len(Moves(maze, catchers[i])) = 0
             THEN to = catchers[i]
             ELSE /\ to.id = catchers[i].id
                  /\ FirstNearest(maze, catchers[i], socks, Pos(to.x, to.y)))
\* After a catcher move, some catcher has two open neighbours at the same
\* least distance from the player
C34_Tie ==
  /\ gameState = "playing" /\ events.tick > 0
  /\ \E i \in 1..Len(catchers) :
       LET mv == Moves(maze, catchers[i])
       IN \E a, b \in 1..Len(mv) :
            /\ a < b
            /\ Manhattan(mv[a], socks) = Manhattan(mv[b], socks)
            /\ \A c \in 1..Len(mv) : Manhattan(mv[a], socks) <= Manhattan(mv[c], socks)

\* Lists of valid positions a spawn may find: none, or up to MaxCandidates
\* cells of the scan
CandidateLists ==
  {SubSeq(InteriorCells, 1, n) : n \in 0..MaxCandidates}

GenDeadEnds(open) == {c \in GenCells : IsDeadEnd(open, c)}

\* C36: in the dead-end scan no step adds to the number of dead ends, the step
\* at a dead end that has a wall to open lowers it, and the step that ends a
\* full pass leaves no dead end: a pass that begins with dead ends ends with
\* fewer.
C36_PassReducesDeadEnds ==
  [][generator.pc = "scan" =>
       LET c == Pos(generator.x, generator.y)
           before == Cardinality(GenDeadEnds(generator.open))
           after == Cardinality(GenDeadEnds(generator'.open))
       IN /\ after <= before
          /\ (IsDeadEnd(generator.open, c) /\ GenWallNeighbours(generator.open, c) # {})
               => after < before
          /\ (generator.x = GenWidth - 2 /\ generator.y = GenHeight - 2) => after = 0]_vars
\* A pass has met a dead end and has opened a wall for it
C36_DeadEndOpened ==
  /\ generator.pc = "scan" /\ generator.hasDeadEnds
  /\ GenDeadEnds(generator.open) = {}

\* C37: in every reachable state the catchers are at most 2 + level: eating a
\* catcher, its delayed respawn, resumeAfterCatch and a level start, in any
\* order, never leave more catchers than the level starts with.
C37_RosterSize == Len(catchers) <= BaseCatchers + level

\* C38: the treat is on the grid or carried only on the last level with no
\* bone left, never both at once, and it is put on the grid at most once per
\* level: once carried or delivered no step puts it on the grid again before
\* the next level start.
C38_TreatSingleton ==
  /\ []((dogTreat # << >> \/ hasDogTreat) => level = MAX_LEVEL /\ bones = {})
  /\ [](~(dogTreat # << >> /\ hasDogTreat))
  /\ [][(dogTreat = << >> /\ dogTreat' # << >>) =>
          /\ bones # {} /\ bones' = {}
          /\ ~hasDogTreat /\ ~hasDogTreat']_vars
\* The treat is carried on the last level
C38_TreatCarried ==
  /\ gameState = "playing" /\ level = MAX_LEVEL
  /\ hasDogTreat /\ dogTreat = << >> /\ bones = {}

\* C39: a state with phase won has level = MAX_LEVEL and no bone left, and the
\* step that enters won is taken on the last level with the treat carried and
\* leaves the player inside the couch rectangle.
C39_WonOnLastLevel ==
  /\ [](gameState = "won" => level = MAX_LEVEL /\ bones = {})
  /\ [][(gameState # "won" /\ gameState' = "won") =>
          /\ level' = MAX_LEVEL /\ bones' = {}
          /\ gameState = "playing" /\ hasDogTreat
          /\ OnCouch(couchPosition', socks')]_vars
\* The treat has been delivered
C39_Won ==
  /\ gameState = "won" /\ level = MAX_LEVEL /\ OnCouch(couchPosition, socks)
  /\ ~hasDogTreat /\ score >= TreatPoints

\* The open cells of a cell array with fewer than two open orthogonal neighbours
GridOpen(g, x, y) ==
  /\ y >= 0 /\ y < MAZE_HEIGHT /\ x >= 0 /\ x < MAZE_WIDTH
  /\ x \in g[y + 1]
GridDeadEnds(g) ==
  {c \in {Pos(x, y) : x \in 0..(MAZE_WIDTH - 1), y \in 0..(MAZE_HEIGHT - 1)} :
     /\ GridOpen(g, c.x, c.y)
     /\ Cardinality({i \in 1..4 : GridOpen(g, Neighbours(c)[i].x, Neighbours(c)[i].y)}) < 2}
ApproachCells ==
  {Pos(CouchX + 2, CouchY - 1), Pos(CouchX + 2, CouchY + 3),
   Pos(CouchX - 1, CouchY + 1), Pos(CouchX + 5, CouchY + 1)}

\* C40: the grid of a started level, which is a grid generateMaze returned with
\* the couch block and its four approach cells opened by startLevel, has no
\* dead end: every open cell, the approach cells included, has at least two
\* open orthogonal neighbours. Stated for the grid of the state and for the
\* other grid the level start may have drawn.
C40_NoDeadEndsAfterCarving ==
  maze.carved =>
    \A g \in {GeneratedMazes[maze.gen], WalledApproachMaze} :
      /\ GridDeadEnds(CarveCouch(g)) = {}
      /\ \A c \in ApproachCells : GridOpen(CarveCouch(g), c.x, c.y)
====
